---- MODULE Spec2Model ----
(***************************************************************************)
(* Model of src/bot.py: a single-pass token swap on Optimism through the   *)
(* Odos routing API.  main() is a straight-line pipeline of blocking calls *)
(* to the chain node and to the API; every call is one action whose        *)
(* outcome (value returned, HTTP status, receipt status, exception) is     *)
(* chosen by the environment.                                              *)
(*                                                                         *)
(* Decimal values (decimal.Decimal) are kept as integers counting units of *)
(* 10^-MaxDecimals, so that a value and its digits are those of the        *)
(* Decimal; arithmetic results are rounded to Prec significant digits,     *)
(* half-even, as the decimal context does (the context of the library      *)
(* holds 28 digits; the model scales it down with the sizes of its         *)
(* numbers).                                                               *)
(***************************************************************************)
EXTENDS Integers, Sequences, FiniteSets, TLC

\* ------------------------------------------------------------- bounds
\* Largest token precision drawn; also the number of fractional digits a
\* Decimal of the model can hold.
MaxDecimals == 2
\* Significant digits of the decimal context (scaled down from 28).
Prec == 3

\* ---------------------------------------------------------- constants
CHAIN_ID == 10
HTTP_OK == 200
RECEIPT_OK == 1
APPROVE_GAS_FALLBACK == 120000
SWAP_GAS_FALLBACK == 500000
FORWARD_GAS_FALLBACK == 120000

\* A failed gas estimation (the call raised).
EstFail == -1
\* A value not read yet.
Unread == -1

\* -------------------------------------------------- decimal arithmetic
RECURSIVE Pow10(_)
Pow10(k) == IF k <= 0 THEN 1 ELSE 10 * Pow10(k - 1)

RECURSIVE NumDigits(_)
NumDigits(n) == IF n < 10 THEN 1 ELSE 1 + NumDigits(n \div 10)

Abs(n) == IF n < 0 THEN -n ELSE n
Sign(n) == IF n < 0 THEN -1 ELSE 1

\* One Decimal unit (1.0) in the model's representation.
Unit == Pow10(MaxDecimals)

\* The context's rounding of an exact result to Prec significant digits,
\* ROUND_HALF_EVEN.
ContextRound(n) ==
    LET a == Abs(n)
        d == NumDigits(a)
    IN  IF d <= Prec THEN n
        ELSE LET p    == Pow10(d - Prec)
                 q    == a \div p
                 rest == a % p
                 up   == (2 * rest > p) \/ (2 * rest = p /\ q % 2 = 1)
             IN  Sign(n) * (IF up THEN q + 1 ELSE q) * p

\* Decimal.to_integral_value(rounding=ROUND_DOWN) followed by int():
\* truncation toward zero.
ToIntegralDown(n) == Sign(n) * (Abs(n) \div Unit)

\* to_wei(amount: Decimal, decimals) -> int
to_wei(amount, decimals) ==
    LET q == Pow10(decimals)
    IN  ToIntegralDown(ContextRound(amount * q))

\* from_wei(amount: int, decimals) -> Decimal
from_wei(amount, decimals) ==
    ContextRound(amount * Pow10(MaxDecimals - decimals))

\* math.ceil(estimate * 1.2); the float product is exact for the estimates
\* the model draws.
GasWithMargin(estimate) == (estimate * 12 + 9) \div 10

\* ------------------------------------------------------- input domains
Decimals == {0, MaxDecimals}
\* AMOUNT_IN / AMOUNT_IN_FRIDAY as Decimals: -1 and 5 tokens, and an amount
\* of more digits than the decimal context keeps.
Amounts == {-1 * Unit, 5 * Unit, (Pow10(Prec) + 20) * Unit}
\* balanceOf results in base units; the last has more digits than the
\* decimal context keeps.
Balances == {3, 5 * Unit, Pow10(Prec) + 15}
Allowances == {0, 5 * Unit}
Statuses == {200, 201, 500}
PathIds == {"p1", "p2"}
Absent == "absent"
\* Shapes of the quote's outputTokens: no field, an empty list, a first
\* entry without an amount, a numeric amount, an amount that is no number.
OutShapes == {Absent, "empty", "noamount", "num", "garbage"}
Estimates == {50000}
GasPrices == {2}
ROUTER == "router"
TOKEN_IN_ADDR == "token_in"
TOKEN_OUT_ADDR == "token_out"
WALLET == "wallet"
DEST == "dest"
NoAddr == "none"

NoResp == [status |-> 0, pathId |-> Absent, out |-> Absent]
QuoteResponses ==
    [status : {HTTP_OK}, pathId : PathIds \cup {Absent}, out : OutShapes]
    \cup [status : Statuses \ {HTTP_OK}, pathId : {"p1"}, out : {Absent}]
\* r.text: the body of a response.
Text(resp) == [pathId |-> resp.pathId, out |-> resp.out]

NoTx == [kind |-> "none"]
\* call (line 164) before the assemble response is read.
NoCall == [type |-> "none", hex |-> FALSE, digits |-> <<>>]
\* The converter at rest: main() is running, nothing is being converted.
ConvIdle == [first |-> "none", d |-> 0, hist |-> <<>>]

VARIABLES
    pc,             \* the step main() is at
    err,            \* "none", or how the run ended abnormally
    msg,            \* what the SystemExit message carries
    log,            \* every call made and every report printed, in order
    amount_eff, SEND_TO,
    dec_in, dec_out, bal_in, amount_in_wei, router,
    r, r2, path_id, est_out,
    allowance, nonce, approve_tx,
    call, value, swap_tx,
    bal_out, tx2,
    txCount,        \* the wallet's transaction count on the chain
    chain,          \* the transactions submitted, in order
    cv              \* the converter on its own: the values of a round trip

config  == <<amount_eff, SEND_TO>>
tokens  == <<dec_in, dec_out, bal_in, amount_in_wei, router>>
quoting == <<r, r2, path_id, est_out>>
approve == <<allowance, approve_tx>>
swap    == <<call, value, swap_tx>>
forward == <<bal_out, tx2>>
ledger  == <<txCount, chain>>
pipeline == <<pc, err, msg, log, config, tokens, quoting, approve, nonce,
              swap, forward, ledger>>
vars == <<pipeline, cv>>

Ev(e, k, v, i) == [ev |-> e, kind |-> k, val |-> v, id |-> i]
Logged(e) == log' = Append(log, e)
Logged2(e1, e2) == log' = Append(Append(log, e1), e2)

Running == err = "none" /\ pc # "done"

\* raise SystemExit(text), or an exception nothing catches: the run ends
\* at the step it is in.
Exit(name, text) == err' = name /\ msg' = text /\ pc' = pc
Raise == Exit("Exception", <<>>)

\* ------------------------------------------------------------ lines 91-98
EffectiveAmount(is_friday, amount_fri_str, AMOUNT_IN) ==
    IF is_friday /\ amount_fri_str # <<>> THEN amount_fri_str[1] ELSE AMOUNT_IN

\* The locals of main() before any of them is assigned.
Fresh ==
    /\ err = "none"
    /\ msg = <<>>
    /\ log = <<>>
    /\ dec_in = Unread /\ dec_out = Unread
    /\ bal_in = Unread /\ amount_in_wei = Unread
    /\ router = NoAddr
    /\ r = NoResp /\ r2 = NoResp
    /\ path_id = Absent /\ est_out = Absent
    /\ allowance = Unread
    /\ nonce = Unread
    /\ approve_tx = NoTx /\ swap_tx = NoTx /\ tx2 = NoTx
    /\ call = NoCall /\ value = Unread
    /\ bal_out = Unread
    /\ txCount = 0
    /\ chain = <<>>

Init ==
    /\ pc = "ResolveDecimals"
    /\ \E a \in Amounts, f \in {<<>>} \cup {<<x>> : x \in Amounts},
          fri \in BOOLEAN :
           amount_eff = EffectiveAmount(fri, f, a)
    /\ SEND_TO \in {NoAddr, DEST}
    /\ Fresh
    /\ cv = ConvIdle

\* ---------------------------------------------------------- lines 116-117
ResolveDecimals ==
    /\ Running /\ pc = "ResolveDecimals" /\ UNCHANGED cv
    /\ \/ /\ \E di \in Decimals, do \in {MaxDecimals} :
               /\ dec_in' = di /\ dec_out' = do
               /\ Logged2(Ev("read", "decimals_in", di, ""),
                          Ev("read", "decimals_out", do, ""))
          /\ pc' = "CheckBalance"
          /\ UNCHANGED <<err, msg>>
       \/ /\ Raise
          /\ Logged(Ev("read", "decimals_in", Unread, "raised"))
          /\ UNCHANGED <<dec_in, dec_out>>
    /\ UNCHANGED <<config, bal_in, amount_in_wei, router, quoting, approve,
                   nonce, swap, forward, ledger>>

\* ---------------------------------------------------------- lines 119-124
InsufficientBalance_OrEqual(bal, dec, amount) == from_wei(bal, dec) <= amount
InsufficientBalance(bal, dec, amount) == from_wei(bal, dec) < amount

CheckBalance ==
    /\ Running /\ pc = "CheckBalance" /\ UNCHANGED cv
    /\ \/ \E bal \in Balances :
            /\ bal_in' = bal
            /\ Logged(Ev("read", "bal_in", bal, ""))
            /\ IF InsufficientBalance(bal, dec_in, amount_eff)
               THEN /\ Exit("InsufficientBalance", <<from_wei(bal, dec_in)>>)
                    /\ UNCHANGED amount_in_wei
               ELSE /\ amount_in_wei' = to_wei(amount_eff, dec_in)
                    /\ pc' = "ResolveRouter"
                    /\ UNCHANGED <<err, msg>>
       \/ /\ Raise
          /\ Logged(Ev("read", "bal_in", Unread, "raised"))
          /\ UNCHANGED <<bal_in, amount_in_wei>>
    /\ UNCHANGED <<config, dec_in, dec_out, router, quoting, approve, nonce,
                   swap, forward, ledger>>

\* ------------------------------------------------- lines 125 and 40-45
ResolveRouter ==
    /\ Running /\ pc = "ResolveRouter" /\ UNCHANGED cv
    /\ \/ \E status \in Statuses :
            /\ Logged(Ev("api", "router", status, ""))
            /\ IF status # HTTP_OK
               THEN /\ Exit("RouterLookupFailed", <<status>>)
                    /\ UNCHANGED router
               ELSE /\ router' = ROUTER
                    /\ pc' = "Quote"
                    /\ UNCHANGED <<err, msg>>
       \/ /\ Raise
          /\ Logged(Ev("api", "router", 0, "raised"))
          /\ UNCHANGED router
    /\ UNCHANGED <<config, dec_in, dec_out, bal_in, amount_in_wei, quoting,
                   approve, nonce, swap, forward, ledger>>

\* ------------------------------------------------- lines 127-139, 47-58
NeedsRetry_Non2xx(resp) == resp.status \div 100 # 2
\* r.status_code != 200
NeedsRetry(resp) == resp.status # HTTP_OK

FallbackQuote_First(first, retry) == first
\* The response whose JSON becomes `quote` on the fallback branch (line 133).
FallbackQuote(first, retry) == retry

\* The text of the SystemExit of line 132.
QuoteFailedText(first, retry) ==
    <<first.status, Text(first), retry.status, Text(retry)>>

\* quote.get("outputTokens", [{}])[0].get("amount"): None (Absent) unless
\* the first entry holds an amount.
EstOut(quote) == IF quote.out \in {"num", "garbage"} THEN quote.out ELSE Absent

\* Lines 138-139: quote["pathId"] raises KeyError without the key, and
\* [0] raises IndexError on an empty outputTokens list.
RecordQuote(quote) ==
    IF quote.pathId = Absent
    THEN Raise /\ UNCHANGED <<path_id, est_out>>
    ELSE /\ path_id' = quote.pathId
         /\ IF quote.out = "empty"
            THEN Raise /\ UNCHANGED est_out
            ELSE /\ est_out' = EstOut(quote)
                 /\ pc' = "ConditionalApprove"
                 /\ UNCHANGED <<err, msg>>

Quote ==
    /\ Running /\ pc = "Quote" /\ UNCHANGED cv
    /\ \/ \E resp \in QuoteResponses :
            /\ r' = resp
            /\ Logged(Ev("api", "quote", resp.status, "wallet"))
            /\ IF NeedsRetry(resp)
               THEN /\ pc' = "QuoteRetry"
                    /\ UNCHANGED <<err, msg, path_id, est_out>>
               ELSE RecordQuote(resp)
       \/ /\ Raise
          /\ Logged(Ev("api", "quote", 0, "wallet"))
          /\ UNCHANGED <<r, path_id, est_out>>
    /\ UNCHANGED <<config, tokens, r2, approve, nonce, swap, forward, ledger>>

QuoteRetry ==
    /\ Running /\ pc = "QuoteRetry" /\ UNCHANGED cv
    /\ \/ \E resp \in QuoteResponses :
            /\ r2' = resp
            /\ Logged(Ev("api", "quote", resp.status, "nowallet"))
            /\ IF NeedsRetry(resp)
               THEN /\ Exit("QuoteFailed", QuoteFailedText(r, resp))
                    /\ UNCHANGED <<path_id, est_out>>
               ELSE RecordQuote(FallbackQuote(r, resp))
       \/ /\ Raise
          /\ Logged(Ev("api", "quote", 0, "nowallet"))
          /\ UNCHANGED <<r2, path_id, est_out>>
    /\ UNCHANGED <<config, tokens, r, approve, nonce, swap, forward, ledger>>

\* ---------------------------------------------------------- lines 141-143
NeedsApproval_OrEqual(allow, required) == allow <= required
NeedsApproval_Always(allow, required) == TRUE
NeedsApproval(allow, required) == allow < required

ConditionalApprove ==
    /\ Running /\ pc = "ConditionalApprove" /\ UNCHANGED cv
    /\ \/ \E a \in Allowances :
            /\ allowance' = a
            /\ Logged(Ev("read", "allowance", a, router))
            /\ pc' = IF NeedsApproval(a, amount_in_wei)
                     THEN "ApproveBuild" ELSE "Assemble"
            /\ UNCHANGED <<err, msg>>
       \/ /\ Raise
          /\ Logged(Ev("read", "allowance", Unread, "raised"))
          /\ UNCHANGED allowance
    /\ UNCHANGED <<config, tokens, quoting, approve_tx, nonce, swap, forward,
                   ledger>>

\* ------------------------------------------- transactions (lines 67-69)
\* try: gas = ceil(estimate * 1.2)  except Exception: gas = fallback
GasLimit(estimate, fallback) ==
    IF estimate = EstFail THEN fallback ELSE GasWithMargin(estimate)

\* The nonce and the gas price read for a draft: get_transaction_count and
\* gas_price, in this order.
ReadForDraft(kind, n, gp) ==
    <<Ev("read", "nonce", n, kind), Ev("read", "gas_price", gp, kind)>>

\* sign_and_send accepted by the node: the transaction is on its way.
Submit(tx) ==
    /\ chain' = Append(chain, tx)
    /\ Logged(Ev("submit", tx.kind, tx.gas, ""))

\* wait_for_transaction_receipt returned: the transaction was mined and
\* took its nonce, whatever its status.
Mined(kind, status) ==
    /\ txCount' = txCount + 1
    /\ UNCHANGED chain

\* ---------------------------------------------------------- lines 144-151
\* approve(...).build_transaction({...}) is handed no "gas" entry, so the
\* library fills one in with an estimate_gas call of its own, outside the
\* try of line 152: an estimation that fails there raises out of main().
ApproveDraft(n, gp, gas) ==
    [kind |-> "approval", chainId |-> CHAIN_ID, from |-> WALLET,
     to |-> TOKEN_IN_ADDR, fn |-> "approve", arg |-> router,
     amount |-> "2**255", value |-> 0, nonce |-> n, gasPrice |-> gp,
     gas |-> gas]

ApproveBuild ==
    /\ Running /\ pc = "ApproveBuild" /\ UNCHANGED cv
    /\ \/ \E gp \in GasPrices, e \in Estimates \cup {EstFail} :
            /\ nonce' = txCount
            /\ log' = log \o ReadForDraft("approval", txCount, gp)
                          \o <<Ev("estimate", "approval", e, "build")>>
            /\ IF e = EstFail
               THEN Raise /\ UNCHANGED approve_tx
               ELSE /\ approve_tx' = ApproveDraft(txCount, gp, e)
                    /\ pc' = "ApproveEstimate"
                    /\ UNCHANGED <<err, msg>>
       \/ /\ Raise
          /\ Logged(Ev("read", "nonce", Unread, "raised"))
          /\ UNCHANGED <<nonce, approve_tx>>
    /\ UNCHANGED <<config, tokens, quoting, allowance, swap, forward, ledger>>

\* ---------------------------------------------------------- lines 152-155
ApproveEstimate ==
    /\ Running /\ pc = "ApproveEstimate" /\ UNCHANGED cv
    /\ \E e \in Estimates \cup {EstFail} :
         /\ approve_tx' =
              [approve_tx EXCEPT !.gas = GasLimit(e, APPROVE_GAS_FALLBACK)]
         /\ Logged(Ev("estimate", "approval", e, "try"))
    /\ pc' = "ApproveSend"
    /\ UNCHANGED <<err, msg, config, tokens, quoting, allowance, nonce, swap,
                   forward, ledger>>

\* -------------------------------------------------------------- line 156
ApproveSend ==
    /\ Running /\ pc = "ApproveSend" /\ UNCHANGED cv
    /\ \/ /\ Submit(approve_tx)
          /\ pc' = "ApproveReceipt"
          /\ UNCHANGED <<err, msg, txCount>>
       \/ /\ Raise
          /\ Logged(Ev("rejected", "approval", 0, ""))
          /\ UNCHANGED ledger
    /\ UNCHANGED <<config, tokens, quoting, approve, nonce, swap, forward>>

\* ---------------------------------------------------------- lines 157-160
ApprovalFailed_Ignored(status) == FALSE
ApprovalFailed_Inverted(status) == status = RECEIPT_OK
\* rcpt.status != 1 (line 158)
ApprovalFailed(status) == status # RECEIPT_OK

ApproveReceipt ==
    /\ Running /\ pc = "ApproveReceipt" /\ UNCHANGED cv
    /\ \/ \E status \in {0, RECEIPT_OK} :
            /\ Mined("approval", status)
            /\ IF ApprovalFailed(status)
               THEN /\ Exit("ApprovalFailed", <<>>)
                    /\ Logged(Ev("receipt", "approval", status, ""))
               ELSE /\ pc' = "Assemble"
                    /\ Logged2(Ev("receipt", "approval", status, ""),
                               Ev("report", "approval_ok", 0, ""))
                    /\ UNCHANGED <<err, msg>>
       \/ /\ Raise
          /\ Logged(Ev("no_receipt", "approval", 0, ""))
          /\ UNCHANGED ledger
    /\ UNCHANGED <<config, tokens, quoting, approve, nonce, swap, forward>>

\* ------------------------------------------- lines 162-167 and 60-65
\* int(s, base) of a string of digits.
RECURSIVE ParseInt(_, _)
ParseInt(digits, base) ==
    IF digits = <<>> THEN 0
    ELSE ParseInt(SubSeq(digits, 1, Len(digits) - 1), base) * base
         + digits[Len(digits)]

\* The "value" entry of the assembled call: absent, a string prefixed 0x,
\* a string of decimal digits, or a number.
ValueFields ==
    {[type |-> Absent, hex |-> FALSE, digits |-> <<>>]}
    \cup [type : {"str"}, hex : BOOLEAN, digits : {<<1, 0>>}]
    \cup [type : {"int"}, hex : {FALSE}, digits : {<<1, 0>>}]

NormalizeValue_AlwaysDecimal(field) ==
    IF field.type = Absent THEN 0 ELSE ParseInt(field.digits, 10)
\* Line 167.
NormalizeValue(field) ==
    IF field.type = "str" /\ field.hex
    THEN ParseInt(field.digits, 16)
    ELSE IF field.type = Absent THEN 0 ELSE ParseInt(field.digits, 10)

\* The pathId odos_assemble posts (line 163).
AssemblePathId == path_id

Assemble ==
    /\ Running /\ pc = "Assemble" /\ UNCHANGED cv
    /\ \/ \E status \in Statuses, field \in ValueFields :
            /\ Logged(Ev("api", "assemble", status, AssemblePathId))
            /\ IF status # HTTP_OK
               THEN /\ Exit("AssembleFailed", <<status>>)
                    /\ UNCHANGED <<call, value>>
               ELSE /\ call' = field
                    /\ value' = NormalizeValue(field)
                    /\ pc' = "SwapBuild"
                    /\ UNCHANGED <<err, msg>>
       \/ /\ Raise
          /\ Logged(Ev("api", "assemble", 0, AssemblePathId))
          /\ UNCHANGED <<call, value>>
    /\ UNCHANGED <<config, tokens, quoting, approve, nonce, swap_tx, forward,
                   ledger>>

\* ---------------------------------------------------------- lines 169-178
SwapDraft_StaleNonce(n, gp) ==
    [kind |-> "swap", chainId |-> CHAIN_ID, from |-> WALLET, to |-> "to_addr",
     data |-> "data", value |-> value, nonce |-> nonce, gasPrice |-> gp,
     gas |-> Unread]
SwapDraft(n, gp) ==
    [kind |-> "swap", chainId |-> CHAIN_ID, from |-> WALLET, to |-> "to_addr",
     data |-> "data", value |-> value, nonce |-> n, gasPrice |-> gp,
     gas |-> Unread]

SwapBuild ==
    /\ Running /\ pc = "SwapBuild" /\ UNCHANGED cv
    /\ \/ \E gp \in GasPrices :
            /\ nonce' = txCount
            /\ log' = log \o ReadForDraft("swap", txCount, gp)
            /\ swap_tx' = SwapDraft(txCount, gp)
            /\ pc' = "SwapEstimate"
            /\ UNCHANGED <<err, msg>>
       \/ /\ Raise
          /\ Logged(Ev("read", "nonce", Unread, "raised"))
          /\ UNCHANGED <<nonce, swap_tx>>
    /\ UNCHANGED <<config, tokens, quoting, approve, call, value, forward,
                   ledger>>

\* ---------------------------------------------------------- lines 179-182
SwapEstimate ==
    /\ Running /\ pc = "SwapEstimate" /\ UNCHANGED cv
    /\ \E e \in Estimates \cup {EstFail} :
         /\ swap_tx' = [swap_tx EXCEPT !.gas = GasLimit(e, SWAP_GAS_FALLBACK)]
         /\ Logged(Ev("estimate", "swap", e, "try"))
    /\ pc' = "SwapSend"
    /\ UNCHANGED <<err, msg, config, tokens, quoting, approve, nonce, call,
                   value, forward, ledger>>

\* ---------------------------------------------------------- lines 184-185
SwapSend ==
    /\ Running /\ pc = "SwapSend" /\ UNCHANGED cv
    /\ \/ /\ Submit(swap_tx)
          /\ pc' = "SwapReceipt"
          /\ UNCHANGED <<err, msg, txCount>>
       \/ /\ Raise
          /\ Logged(Ev("rejected", "swap", 0, ""))
          /\ UNCHANGED ledger
    /\ UNCHANGED <<config, tokens, quoting, approve, nonce, swap, forward>>

\* ---------------------------------------------------------- lines 186-200
\* Lines 190-197: the success report carries the estimate when est_out is
\* truthy and int(est_out) and from_wei succeed; the except branch and the
\* else branch print the plain report.
SwapReport_Unguarded(est) ==
    IF est # Absent THEN "with_estimate" ELSE "plain"
SwapReport(est) == IF est = "num" THEN "with_estimate" ELSE "plain"

\* Line 221, reached when nothing is left to do.
Completed == Ev("report", "completed", 0, "")

SwapFailed_Ignored(status) == FALSE
\* rcpt.status != 1 (line 187)
SwapFailed(status) == status # RECEIPT_OK

SwapReceipt ==
    /\ Running /\ pc = "SwapReceipt" /\ UNCHANGED cv
    /\ \/ \E status \in {0, RECEIPT_OK} :
            /\ Mined("swap", status)
            /\ IF SwapFailed(status)
               THEN /\ Exit("SwapFailed", <<>>)
                    /\ Logged(Ev("receipt", "swap", status, ""))
               ELSE /\ UNCHANGED <<err, msg>>
                    /\ IF SEND_TO # NoAddr
                       THEN /\ pc' = "OptionalForward"
                            /\ Logged2(Ev("receipt", "swap", status, ""),
                                       Ev("report", "swap_ok", 0,
                                          SwapReport(est_out)))
                       ELSE /\ pc' = "done"
                            /\ log' = log \o
                                 <<Ev("receipt", "swap", status, ""),
                                   Ev("report", "swap_ok", 0,
                                      SwapReport(est_out)),
                                   Completed>>
       \/ /\ Raise
          /\ Logged(Ev("no_receipt", "swap", 0, ""))
          /\ UNCHANGED ledger
    /\ UNCHANGED <<config, tokens, quoting, approve, nonce, swap, forward>>

\* ---------------------------------------------------------- lines 199-202
OutBalances == {0, 7}

NeedsForward_Always(bal) == bal >= 0
NeedsForward(bal) == bal > 0

OptionalForward ==
    /\ Running /\ pc = "OptionalForward" /\ UNCHANGED cv
    /\ \/ \E bal \in OutBalances :
            /\ bal_out' = bal
            /\ UNCHANGED <<err, msg>>
            /\ IF NeedsForward(bal)
               THEN /\ pc' = "ForwardBuild"
                    /\ Logged(Ev("read", "bal_out", bal, ""))
               ELSE /\ pc' = "done"
                    /\ Logged2(Ev("read", "bal_out", bal, ""), Completed)
       \/ /\ Raise
          /\ Logged(Ev("read", "bal_out", Unread, "raised"))
          /\ UNCHANGED bal_out
    /\ UNCHANGED <<config, tokens, quoting, approve, nonce, swap, tx2, ledger>>

\* ---------------------------------------------------------- lines 203-210
\* As for the approval, transfer(...).build_transaction estimates the gas
\* itself, outside the try of line 211.
ForwardDraft_Partial(n, gp, gas) ==
    [kind |-> "forward", chainId |-> CHAIN_ID, from |-> WALLET,
     to |-> TOKEN_OUT_ADDR, fn |-> "transfer", arg |-> SEND_TO,
     amount |-> bal_out - 1, value |-> 0, nonce |-> n, gasPrice |-> gp,
     gas |-> gas]
ForwardDraft(n, gp, gas) ==
    [kind |-> "forward", chainId |-> CHAIN_ID, from |-> WALLET,
     to |-> TOKEN_OUT_ADDR, fn |-> "transfer", arg |-> SEND_TO,
     amount |-> bal_out, value |-> 0, nonce |-> n, gasPrice |-> gp,
     gas |-> gas]

ForwardBuild ==
    /\ Running /\ pc = "ForwardBuild" /\ UNCHANGED cv
    /\ \/ \E gp \in GasPrices, e \in Estimates \cup {EstFail} :
            /\ nonce' = txCount
            /\ log' = log \o ReadForDraft("forward", txCount, gp)
                          \o <<Ev("estimate", "forward", e, "build")>>
            /\ IF e = EstFail
               THEN Raise /\ UNCHANGED tx2
               ELSE /\ tx2' = ForwardDraft(txCount, gp, e)
                    /\ pc' = "ForwardEstimate"
                    /\ UNCHANGED <<err, msg>>
       \/ /\ Raise
          /\ Logged(Ev("read", "nonce", Unread, "raised"))
          /\ UNCHANGED <<nonce, tx2>>
    /\ UNCHANGED <<config, tokens, quoting, approve, swap, bal_out, ledger>>

\* ---------------------------------------------------------- lines 211-214
ForwardEstimate ==
    /\ Running /\ pc = "ForwardEstimate" /\ UNCHANGED cv
    /\ \E e \in Estimates \cup {EstFail} :
         /\ tx2' = [tx2 EXCEPT !.gas = GasLimit(e, FORWARD_GAS_FALLBACK)]
         /\ Logged(Ev("estimate", "forward", e, "try"))
    /\ pc' = "ForwardSend"
    /\ UNCHANGED <<err, msg, config, tokens, quoting, approve, nonce, swap,
                   bal_out, ledger>>

\* -------------------------------------------------------------- line 215
ForwardSend ==
    /\ Running /\ pc = "ForwardSend" /\ UNCHANGED cv
    /\ \/ /\ Submit(tx2)
          /\ pc' = "ForwardReceipt"
          /\ UNCHANGED <<err, msg, txCount>>
       \/ /\ Raise
          /\ Logged(Ev("rejected", "forward", 0, ""))
          /\ UNCHANGED ledger
    /\ UNCHANGED <<config, tokens, quoting, approve, nonce, swap, forward>>

\* ---------------------------------------------------------- lines 216-221
ForwardFailed_Ignored(status) == FALSE
\* rcpt.status != 1 (line 217)
ForwardFailed(status) == status # RECEIPT_OK

ForwardReceipt ==
    /\ Running /\ pc = "ForwardReceipt" /\ UNCHANGED cv
    /\ \/ \E status \in {0, RECEIPT_OK} :
            /\ Mined("forward", status)
            /\ IF ForwardFailed(status)
               THEN /\ Exit("ForwardFailed", <<>>)
                    /\ Logged(Ev("receipt", "forward", status, ""))
               ELSE /\ pc' = "done"
                    /\ log' = log \o <<Ev("receipt", "forward", status, ""),
                                       Ev("report", "forward_ok", 0, ""),
                                       Completed>>
                    /\ UNCHANGED <<err, msg>>
       \/ /\ Raise
          /\ Logged(Ev("no_receipt", "forward", 0, ""))
          /\ UNCHANGED ledger
    /\ UNCHANGED <<config, tokens, quoting, approve, nonce, swap, forward>>

Next ==
    \/ ResolveDecimals
    \/ CheckBalance
    \/ ResolveRouter
    \/ Quote
    \/ QuoteRetry
    \/ ConditionalApprove
    \/ ApproveBuild
    \/ ApproveEstimate
    \/ ApproveSend
    \/ ApproveReceipt
    \/ Assemble
    \/ SwapBuild
    \/ SwapEstimate
    \/ SwapSend
    \/ SwapReceipt
    \/ OptionalForward
    \/ ForwardBuild
    \/ ForwardEstimate
    \/ ForwardSend
    \/ ForwardReceipt

Spec == Init /\ [][Next]_vars

\* Every chain and API call eventually returns or fails: main() is never
\* left waiting at a step for ever.
LiveSpec == Spec /\ WF_vars(Next)

\* ------------------------------------------- the converter on its own
\* to_wei and from_wei (lines 33-38) applied to inputs of their own, one
\* after the other: cv.hist holds the input and each result, cv.first says
\* whether the input was a Decimal or an int.
ConvAmounts ==
    (0 .. 2 * Unit) \cup ((Pow10(Prec + 1) - 10) .. Pow10(Prec + 1))
    \cup {-1 * Unit, -1}
ConvIntegers == (0 .. 20) \cup (Pow10(Prec) .. (Pow10(Prec) + 20))
MaxTrip == 3

ConvInit ==
    /\ pc = "converter"
    /\ amount_eff = 0 /\ SEND_TO = NoAddr
    /\ Fresh
    /\ \E d \in 0 .. MaxDecimals :
          \/ \E a \in ConvAmounts :
                cv = [first |-> "decimal", d |-> d, hist |-> <<a>>]
          \/ \E x \in ConvIntegers :
                cv = [first |-> "int", d |-> d, hist |-> <<x>>]

\* Whether the last value of the round trip is a Decimal.
ConvHoldsDecimal == (cv.first = "decimal") = (Len(cv.hist) % 2 = 1)

ConvToWei ==
    /\ cv.first # "none" /\ Len(cv.hist) < MaxTrip
    /\ ConvHoldsDecimal
    /\ cv' = [cv EXCEPT
                !.hist = Append(@, to_wei(cv.hist[Len(cv.hist)], cv.d))]
    /\ UNCHANGED pipeline

ConvFromWei ==
    /\ cv.first # "none" /\ Len(cv.hist) < MaxTrip
    /\ ~ConvHoldsDecimal
    /\ cv' = [cv EXCEPT
                !.hist = Append(@, from_wei(cv.hist[Len(cv.hist)], cv.d))]
    /\ UNCHANGED pipeline

ConvNext ==
    \/ ConvToWei
    \/ ConvFromWei

ConvSpec == ConvInit /\ [][ConvNext]_vars

\* ================================================================ claims
Idx(e, k) == {i \in DOMAIN log : log[i].ev = e /\ log[i].kind = k}
Submits(k) == Idx("submit", k)
AllSubmits == {i \in DOMAIN log : log[i].ev = "submit"}
ApiCalls == {i \in DOMAIN log : log[i].ev = "api"}
Quotes == Idx("api", "quote")
Assembles == Idx("api", "assemble")
Aborted == err # "none"
Is2xx(status) == status \div 100 = 2

\* The steps of the pipeline that precede SubmitSwap.
BeforeApprove ==
    {"ResolveDecimals", "CheckBalance", "ResolveRouter", "Quote", "QuoteRetry"}
ApproveSteps ==
    {"ConditionalApprove", "ApproveBuild", "ApproveEstimate", "ApproveSend",
     "ApproveReceipt"}
BeforeSwap == BeforeApprove \cup ApproveSteps \cup {"Assemble"}

\* C1: once the balance read at CheckBalance, as a decimal, is strictly
\* below the effective amount, the run stands aborted at CheckBalance with
\* InsufficientBalance and has made no API request and submitted no
\* transaction; a balance equal to or above the amount never leaves the run
\* aborted at CheckBalance.
C1_BalanceCheck ==
    /\ (bal_in # Unread /\ from_wei(bal_in, dec_in) < amount_eff) =>
          /\ pc = "CheckBalance" /\ err = "InsufficientBalance"
          /\ ApiCalls = {} /\ AllSubmits = {} /\ chain = <<>>
          /\ router = NoAddr /\ amount_in_wei = Unread
    /\ (bal_in # Unread /\ from_wei(bal_in, dec_in) >= amount_eff) =>
          /\ pc # "CheckBalance"
          /\ err # "InsufficientBalance"

\* Scenario B: balance 3.0 against an amount of 5.0.
C1_Witness ==
    /\ err = "InsufficientBalance"
    /\ amount_eff = 5 * Unit
    /\ from_wei(bal_in, dec_in) = 3 * Unit

\* C2: with an allowance at or above the required amount no approval is
\* ever built or submitted; with an allowance below it, a run that has got
\* past ConditionalApprove has submitted exactly one approval, and any
\* assemble request comes after that approval's submission and receipt.
C2_ConditionalApprove ==
    /\ Cardinality(Submits("approval")) <= 1
    /\ (allowance # Unread /\ allowance >= amount_in_wei) =>
          /\ Submits("approval") = {}
          /\ approve_tx.kind = "none"
          /\ \A i \in DOMAIN log : log[i].id # "approval"
                                   /\ log[i].kind # "approval"
          /\ \A i \in DOMAIN chain : chain[i].kind # "approval"
    /\ (allowance # Unread /\ allowance < amount_in_wei
        /\ pc \notin ApproveSteps) =>
          /\ Cardinality(Submits("approval")) = 1
          /\ \E s \in Submits("approval"), c \in Idx("receipt", "approval") :
                /\ s < c
                /\ \A a \in Assembles : c < a
    /\ (allowance # Unread /\ allowance < amount_in_wei) =>
          (Assembles # {} => pc \notin ApproveSteps)

C2_Witness ==
    /\ Assembles # {}
    /\ allowance = 0 /\ amount_in_wei = 5 * Unit
    /\ Submits("approval") # {}

\* C3: after an approval receipt with a non-success status the run stands
\* aborted with ApprovalFailed: no assemble request, no swap transaction
\* built or submitted, no forward transaction.
C3_ApprovalFailedAborts ==
    (\E c \in Idx("receipt", "approval") : log[c].val # RECEIPT_OK) =>
        /\ err = "ApprovalFailed" /\ pc = "ApproveReceipt"
        /\ Assembles = {}
        /\ swap_tx.kind = "none" /\ tx2.kind = "none"
        /\ Submits("swap") = {} /\ Submits("forward") = {}
        /\ Len(chain) = 1

C3_Witness ==
    /\ err = "ApprovalFailed"
    /\ \E c \in Idx("receipt", "approval") : log[c].val = 0

\* What C4 says of the quote step, given the statuses that count as a
\* request having succeeded: a second request is sent iff the first one failed, it is the
\* only retry and it leaves the wallet out; a failed retry aborts with
\* QuoteFailed carrying both statuses and bodies, before any allowance
\* read, assemble request or transaction.
QuotePolicy(succeeded) ==
    /\ Cardinality(Quotes) <= 2
    /\ \A i \in Quotes :
          log[i].id = IF \E j \in Quotes : j < i THEN "nowallet" ELSE "wallet"
    /\ (r # NoResp /\ ~(pc = "QuoteRetry" /\ err = "none")) =>
          (Cardinality(Quotes) = 2 <=> r.status \notin succeeded)
    /\ (r = NoResp) => Cardinality(Quotes) <= 1
    /\ (r2 # NoResp /\ r2.status \notin succeeded) =>
          /\ err = "QuoteFailed" /\ pc = "QuoteRetry"
          /\ msg = <<r.status, Text(r), r2.status, Text(r2)>>
          /\ allowance = Unread /\ Idx("read", "allowance") = {}
          /\ Assembles = {} /\ AllSubmits = {} /\ chain = <<>>

Only200 == {HTTP_OK}
Any2xx == {s \in Statuses : Is2xx(s)}

\* C4 (as amended): the retry is sent iff the first response's status is
\* other than 200 (a 201 is retried too); the rest as above, a retry
\* failing when its status is other than 200.
C4_RetryOnNot200 == QuotePolicy(Only200)

\* C4 (as written): the retry is sent iff the first response is non-2xx.
C4_RetryOnNon2xx == QuotePolicy(Any2xx)

C4_Witness ==
    /\ err = "QuoteFailed"
    /\ Cardinality(Quotes) = 2
    /\ r.status = 201 /\ r2.status = 500

\* C5: a failed gas estimation never ends the run: the run is not aborted
\* by it, and a transaction submitted after a failed estimation carries its
\* kind's fixed ceiling.
GasCeiling(kind) ==
    IF kind = "swap" THEN SWAP_GAS_FALLBACK
    ELSE IF kind = "approval" THEN APPROVE_GAS_FALLBACK
    ELSE FORWARD_GAS_FALLBACK

C5_EstimationFailureNeverAborts ==
    \A i \in DOMAIN log :
        (log[i].ev = "estimate" /\ log[i].val = EstFail) =>
            /\ ~(i = Len(log) /\ Aborted)
            /\ \A s \in Submits(log[i].kind) :
                  log[s].val = GasCeiling(log[i].kind)

\* C6: after a swap receipt with a non-success status the run stands
\* aborted with SwapFailed: no success report, no read of the output-token
\* balance, no forward transaction built or submitted.
C6_SwapFailedAborts ==
    (\E c \in Idx("receipt", "swap") : log[c].val # RECEIPT_OK) =>
        /\ err = "SwapFailed" /\ pc = "SwapReceipt"
        /\ \A i \in DOMAIN log : log[i].ev # "report" \/ log[i].kind = "approval_ok"
        /\ bal_out = Unread /\ Idx("read", "bal_out") = {}
        /\ tx2.kind = "none" /\ Submits("forward") = {}

C6_Witness ==
    /\ err = "SwapFailed"
    /\ SEND_TO = DEST
    /\ \E c \in Idx("receipt", "swap") : log[c].val = 0

\* C7: with a forwarding address configured and an output-token balance of
\* zero read after the swap, no forward transaction is built or submitted,
\* no error is raised and the run has ended normally, the swap reported
\* successful.
C7_ZeroBalanceSkipsForward ==
    (SEND_TO # NoAddr /\ bal_out = 0) =>
        /\ pc = "done" /\ err = "none"
        /\ tx2.kind = "none" /\ Submits("forward") = {}
        /\ \A i \in DOMAIN chain : chain[i].kind # "forward"
        /\ Idx("report", "swap_ok") # {}
        /\ log[Len(log)] = Completed

C7_Witness == SEND_TO = DEST /\ bal_out = 0 /\ pc = "done"

\* C8 (as written): a run aborted at a step before SubmitSwap has submitted
\* no transaction at all.
C8_AbortBeforeSwapSubmitsNothing ==
    (Aborted /\ pc \in BeforeSwap) => (AllSubmits = {} /\ chain = <<>>)

\* C8 (as amended): a run aborted at a step before SubmitSwap has submitted
\* no swap and no forward transaction; aborted before ConditionalApprove it
\* has submitted nothing; aborted in ConditionalApprove or Assemble it has
\* submitted at most the one approval, and that only with an allowance
\* below the required amount.
C8_AbortBeforeSwapOnlyApproval ==
    (Aborted /\ pc \in BeforeSwap) =>
        /\ Submits("swap") = {} /\ Submits("forward") = {}
        /\ Len(chain) <= 1
        /\ \A i \in DOMAIN chain : chain[i].kind = "approval"
        /\ Cardinality(AllSubmits) = Len(chain)
        /\ pc \in BeforeApprove => chain = <<>>
        /\ chain # <<>> => (allowance # Unread /\ allowance < amount_in_wei)

C8_Witness ==
    /\ err = "AssembleFailed"
    /\ Len(chain) = 1 /\ chain[1].kind = "approval"

\* C9: each kind of transaction is submitted at most once, in the order
\* approval, swap, forward; after a receipt with a non-success status
\* nothing is submitted and no API request is made.
Rank(kind) == IF kind = "approval" THEN 1 ELSE IF kind = "swap" THEN 2 ELSE 3

C9_NoRetry ==
    /\ \A k \in {"approval", "swap", "forward"} : Cardinality(Submits(k)) <= 1
    /\ \A i, j \in AllSubmits : i < j => Rank(log[i].kind) < Rank(log[j].kind)
    /\ Len(chain) = Cardinality(AllSubmits)
    /\ Len(chain) <= 3
    /\ \A i, j \in DOMAIN chain : i < j => Rank(chain[i].kind) < Rank(chain[j].kind)
    /\ \A c \in DOMAIN log :
          (log[c].ev = "receipt" /\ log[c].val # RECEIPT_OK) =>
              /\ Aborted
              /\ \A j \in DOMAIN log :
                    j > c => log[j].ev \notin {"submit", "rejected", "api"}

C9_Witness ==
    /\ Len(chain) = 3
    /\ \E c \in Idx("receipt", "forward") : log[c].val = 0

\* C10: at most one assemble request is made, after a quote attempt that
\* returned success, and it posts the pathId of that attempt's response
\* (the retry's when the first attempt failed); the swap transaction is
\* submitted at most once.
C10_AssembleUsesQuotedPath ==
    /\ Cardinality(Assembles) <= 1
    /\ \A a \in Assembles :
          /\ \E q \in Quotes : q < a /\ log[q].val = HTTP_OK
          /\ \A q \in Quotes : q < a
          /\ r.status = HTTP_OK \/ r2.status = HTTP_OK
          /\ log[a].id = IF r.status = HTTP_OK THEN r.pathId ELSE r2.pathId
          /\ log[a].id \in PathIds
    /\ Cardinality(Submits("swap")) <= 1

C10_Witness ==
    /\ Assembles # {}
    /\ r.status # HTTP_OK /\ r2.status = HTTP_OK
    /\ r.pathId = "p1" /\ r2.pathId = "p2"
    /\ Submits("swap") # {}

\* C11: every run terminates, aborted or normally; a run that has ended
\* normally holds a swap receipt that reported success, and either a
\* forward receipt that reported success or no forward transaction at all,
\* there being no forwarding address or a zero output-token balance.
ReceiptOk(kind) == \E c \in Idx("receipt", kind) : log[c].val = RECEIPT_OK
ForwardSkipped ==
    /\ SEND_TO = NoAddr \/ bal_out = 0
    /\ tx2.kind = "none" /\ Submits("forward") = {}
EndedNormally == pc = "done" /\ err = "none"

C11_Terminates ==
    /\ <>(EndedNormally \/ Aborted)
    /\ [](pc = "done" =>
            /\ err = "none"
            /\ ReceiptOk("swap")
            /\ \A c \in DOMAIN log :
                  log[c].ev \in {"receipt", "no_receipt"} =>
                      (log[c].ev = "receipt" /\ log[c].val = RECEIPT_OK)
            /\ ReceiptOk("forward") \/ ForwardSkipped
            /\ log[Len(log)] = Completed)

C11_Witness ==
    /\ EndedNormally
    /\ ReceiptOk("swap") /\ ReceiptOk("forward")
    /\ SEND_TO = DEST /\ bal_out > 0

\* C12: for a non-negative Decimal a and a decimal count d, to_wei never
\* rounds up (to_wei(a, d) <= a * 10^d), from_wei(to_wei(a, d), d) <= a,
\* and the two are equal when a has no more than d fractional digits.
C12_TruncationLaw ==
    (cv.first = "decimal" /\ cv.hist[1] >= 0) =>
        /\ (Len(cv.hist) >= 2) =>
              (cv.hist[2] * Unit <= cv.hist[1] * Pow10(cv.d))
        /\ (Len(cv.hist) >= 3) =>
              /\ cv.hist[3] <= cv.hist[1]
              /\ (cv.hist[1] % Pow10(MaxDecimals - cv.d) = 0) =>
                    (cv.hist[3] = cv.hist[1])

\* C13: for a non-negative integer x and a decimal count d,
\* to_wei(from_wei(x, d), d) = x.
C13_RoundTripExact ==
    (cv.first = "int" /\ cv.hist[1] >= 0 /\ Len(cv.hist) >= 3) =>
        (cv.hist[3] = cv.hist[1])

\* C14: a run whose effective amount is negative never gets past the
\* conversion to base units: once the balance is read it stands aborted
\* with InvalidAmount, no quote request is sent and no transaction is
\* submitted.
C14_NegativeAmountRejected ==
    (amount_eff < 0) =>
        /\ pc \in {"ResolveDecimals", "CheckBalance"}
        /\ (Idx("read", "bal_in") # {} /\ bal_in >= 0) => err = "InvalidAmount"
        /\ Quotes = {} /\ AllSubmits = {} /\ chain = <<>>

\* C15: each submitted transaction carries the nonce of a read made for it,
\* the only nonce read of its kind; between that read and the submission
\* there is nothing but the gas price read and gas estimations; every
\* transaction submitted earlier has its receipt before that read; the
\* nonces of the run's transactions are pairwise different.
NonceReads(k) == {i \in Idx("read", "nonce") : log[i].id = k}
TxOf(k) == CHOOSE i \in DOMAIN chain : chain[i].kind = k

C15_FreshNonce ==
    /\ \A s \in AllSubmits :
          LET k == log[s].kind
          IN  /\ \E i \in DOMAIN chain : chain[i].kind = k
              /\ Cardinality(NonceReads(k)) = 1
              /\ \A i \in NonceReads(k) :
                    /\ i < s
                    /\ log[i].val = chain[TxOf(k)].nonce
                    /\ \A j \in (i + 1) .. (s - 1) :
                          \/ log[j].ev = "estimate" /\ log[j].kind = k
                          \/ log[j] = Ev("read", "gas_price", log[j].val, k)
                    /\ \A p \in AllSubmits :
                          p < s => \E c \in Idx("receipt", log[p].kind) :
                                      p < c /\ c < i
    /\ \A i, j \in DOMAIN chain : i # j => chain[i].nonce # chain[j].nonce
    /\ \A i \in DOMAIN chain : chain[i].nonce = i - 1

C15_Witness ==
    /\ Len(chain) = 3
    /\ pc = "ForwardReceipt" /\ err = "none"
    /\ chain[1].nonce = 0 /\ chain[2].nonce = 1 /\ chain[3].nonce = 2

\* C16: once the swap receipt has reported success the run is not aborted
\* at the report: the success report is printed once, right after the
\* receipt, without the estimate when the quote carried none or one that is
\* no number, and the run is at OptionalForward or beyond it (ended, with
\* no forwarding address).
AfterSwap ==
    {"OptionalForward", "ForwardBuild", "ForwardEstimate", "ForwardSend",
     "ForwardReceipt", "done"}

C16_ReportNeverAborts ==
    ReceiptOk("swap") =>
        /\ pc \in AfterSwap
        /\ Cardinality(Idx("report", "swap_ok")) = 1
        /\ \A i \in Idx("report", "swap_ok") :
              /\ log[i - 1] = Ev("receipt", "swap", RECEIPT_OK, "")
              /\ est_out \in {Absent, "garbage"} => log[i].id = "plain"
              /\ est_out = "num" => log[i].id = "with_estimate"
        /\ SEND_TO = NoAddr => EndedNormally
        /\ SEND_TO # NoAddr =>
              (pc = "OptionalForward" \/ Idx("read", "bal_out") # {})

C16_Witness ==
    /\ ReceiptOk("swap")
    /\ est_out = "garbage"
    /\ pc = "OptionalForward" /\ err = "none"

\* C17: a quote response with status 200 and a pathId that carries no
\* estimated output amount (no outputTokens field, an empty list, a first
\* entry without an amount) does not abort the quote step: the pathId is
\* recorded, no estimate is, and the run goes on to ConditionalApprove.
QuoteUsed == IF r.status = HTTP_OK THEN r ELSE r2

C17_MissingEstimateTolerated ==
    (/\ QuoteUsed.status = HTTP_OK
     /\ QuoteUsed.pathId # Absent
     /\ QuoteUsed.out \in {Absent, "empty", "noamount"}) =>
        /\ path_id = QuoteUsed.pathId
        /\ est_out = Absent
        /\ pc \notin {"Quote", "QuoteRetry"}
        /\ ~(Aborted /\ pc \in BeforeApprove)

\* C18: once an assemble response with status 200 is in, the run has left
\* Assemble and value is the integer the response's value entry denotes:
\* 0 when absent, the hexadecimal reading of a string prefixed 0x, the
\* decimal reading of any other string or number; the swap transaction,
\* drafted or submitted, carries that integer.
Denoted(c) ==
    IF c.type = Absent THEN 0
    ELSE LET base == IF c.type = "str" /\ c.hex THEN 16 ELSE 10
         IN  c.digits[1] * base + c.digits[2]

C18_ValueNormalized ==
    /\ (\E a \in Assembles : log[a].val = HTTP_OK) =>
          /\ call \in ValueFields
          /\ pc # "Assemble"
          /\ value = Denoted(call)
    /\ (call = NoCall) => (value = Unread /\ swap_tx = NoTx)
    /\ (swap_tx # NoTx) => swap_tx.value = Denoted(call)
    /\ \A i \in DOMAIN chain :
          chain[i].kind = "swap" => chain[i].value = Denoted(call)

C18_Witness ==
    /\ call = [type |-> "str", hex |-> TRUE, digits |-> <<1, 0>>]
    /\ \E i \in DOMAIN chain : chain[i].kind = "swap" /\ chain[i].value = 16

\* C19: once the balance check has passed, the base-unit amount computed
\* for the quote is at most the balance read at CheckBalance.
BalanceCheckPassed ==
    /\ Idx("read", "bal_in") # {} /\ bal_in >= 0
    /\ pc # "CheckBalance"

C19_AmountWithinBalance == BalanceCheckPassed => amount_in_wei <= bal_in

\* C20: a forward transaction is submitted at most once, and only with a
\* forwarding address and a positive output-token balance read after the
\* swap's successful receipt; with these, a run that has got past
\* ForwardSend has submitted exactly one, a transfer on the output token
\* to the forwarding address of the whole balance read; a forward receipt
\* with a non-success status leaves the run aborted with ForwardFailed,
\* the swap reported successful.
ForwardTxs == {i \in DOMAIN chain : chain[i].kind = "forward"}

C20_ForwardWholeBalance ==
    /\ Cardinality(Submits("forward")) <= 1
    /\ Cardinality(ForwardTxs) = Cardinality(Submits("forward"))
    /\ (SEND_TO # NoAddr /\ Idx("read", "bal_out") # {} /\ bal_out > 0
        /\ pc \in {"ForwardReceipt", "done"}) =>
          Cardinality(ForwardTxs) = 1
    /\ \A i \in ForwardTxs :
          /\ SEND_TO # NoAddr /\ bal_out > 0
          /\ chain[i].fn = "transfer" /\ chain[i].to = TOKEN_OUT_ADDR
          /\ chain[i].arg = SEND_TO
          /\ chain[i].amount = bal_out
          /\ \E c \in Idx("receipt", "swap"), b \in Idx("read", "bal_out"),
                s \in Submits("forward") :
                /\ log[c].val = RECEIPT_OK
                /\ c < b /\ b < s
                /\ log[b].val = chain[i].amount
    /\ (\E c \in Idx("receipt", "forward") : log[c].val # RECEIPT_OK) =>
          /\ err = "ForwardFailed" /\ pc = "ForwardReceipt"
          /\ ReceiptOk("swap") /\ Idx("report", "swap_ok") # {}
          /\ Idx("report", "completed") = {}

C20_Witness ==
    /\ err = "ForwardFailed"
    /\ SEND_TO = DEST /\ bal_out = 7
    /\ \E i \in ForwardTxs : chain[i].amount = 7 /\ chain[i].arg = DEST
====
